---------------------------- MODULE Spec2Model ----------------------------
(***************************************************************************)
(* Model of the MBTiles tile-storage engine of mbtiles/src/mbtiles.rs:     *)
(* the batch writer (Mbtiles::insert_tiles, Mbtiles::get_insert_sql) and   *)
(* the read paths (Mbtiles::get_tile, Mbtiles::get_tile_and_hash,          *)
(* Mbtiles::get_tile_and_hash_sql) over the three physical layouts.        *)
(*                                                                         *)
(* A container is a record of its four possible tables, each a set of      *)
(* rows.  A statement of insert_tiles is one step of the model; the        *)
(* transaction opened by conn.begin() works on a private copy (tx) of the  *)
(* committed container (db) until tx.commit().                             *)
(*                                                                         *)
(* Further specifications cover the calls with arbitrary u8 / u32          *)
(* arguments and parse_tile_index (SpecCoord), the streams stream_coords   *)
(* and stream_tiles on one connection (SpecStream), and copy and patch     *)
(* between two container files (SpecCopy).                                 *)
(***************************************************************************)
EXTENDS Integers, Sequences, FiniteSets, TLC

VARIABLES
    mbt_type,      \* schema variant of the container (fixed per container)
    db,            \* committed content of the container file
    tx,            \* content as seen inside the open transaction
    pc,            \* position of the insert_tiles call
    on_duplicate,  \* CopyDuplicateMode argument of the call
    batch,         \* batch argument of the call
    idx,           \* index of the next record of the running loop
    result,        \* outcome of the last call
    pre,           \* committed content when the call began
    obs,           \* last snapshot taken by a reader on an independent handle
    rep,           \* one container per variant, fed with the same calls
    sync,          \* every call so far ended alike in all containers of rep
    got,           \* last get_tile_and_hash made on every container of rep
    stmts,         \* tables written by the statements the running call has executed
    call,          \* last whole call made on the handle: operation, arguments, outcome
    stream,        \* the stream borrowed from the handle, if any
    metadata,      \* rows of the metadata table of the container
    dst            \* a second container file: the destination of a copy

vars == <<mbt_type, db, tx, pc, on_duplicate, batch, idx, result, pre, obs, rep, sync, got,
          stmts, call, stream, metadata, dst>>

\* the state of the whole calls, of the streams and of the second file
ext == <<call, stream, metadata, dst>>

\* the state of the stepwise insert_tiles call and of the lockstep containers
core == <<tx, pc, on_duplicate, batch, idx, result, pre, obs, rep, sync, got, stmts>>

(***************************************************************************)
(* Bounds and universes                                                    *)
(***************************************************************************)
MaxBatch == 2

\* Option::None / SQL NULL
NULL == "NULL"

\* tile contents (byte strings)
Data == {"A", "B"}

\* caller-side XYZ coordinates <<z, x, y>>, all valid on their zoom level
Coords == {<<1, 0, 0>>, <<1, 0, 1>>}

MbtTypes == {"Flat", "FlatWithHash", "NormalizedHashView", "Normalized"}

CopyDuplicateModes == {"Override", "Ignore", "Abort"}

Records == {<<c[1], c[2], c[3], d>> : c \in Coords, d \in Data}

Batches == UNION {[1..n -> Records] : n \in 0..MaxBatch}

IsNormalized(t) == t \in {"NormalizedHashView", "Normalized"}

(***************************************************************************)
(* Helper functions used by the SQL text and the coordinate conversion     *)
(***************************************************************************)
\* md5_hex(?): upper-case hex MD5 digest of the bound blob
md5_hex(d) ==
    CASE d = "A" -> "7FC56270E7A70FA81A5935B72EACBE29"
      [] d = "B" -> "9D5ED678FE57BCCA610140957AFAB571"
      [] d = "C" -> "0D61F8370CAD1D412F80B84D143E1257"

\* XYZ <-> TMS row inversion
invert_y_value(zoom, y) == ((2 ^ zoom) - 1) - y

\* CopyDuplicateMode::to_sql: the conflict clause of the INSERT
to_sql(mode) ==
    CASE mode = "Override" -> "OR REPLACE"
      [] mode = "Ignore" -> "OR IGNORE"
      [] mode = "Abort" -> "OR ABORT"

(***************************************************************************)
(* Physical schema                                                         *)
(***************************************************************************)
EmptyContainer == [tiles |-> {}, tiles_with_hash |-> {}, map |-> {}, images |-> {}]

\* the columns of each table's PRIMARY KEY
PrimaryKey(table) ==
    IF table = "images" THEN {"tile_id"}
    ELSE {"zoom_level", "tile_column", "tile_row"}

SameKey(table, r1, r2) == \A col \in PrimaryKey(table) : r1[col] = r2[col]

\* view map JOIN images ON images.tile_id = map.tile_id
MapJoinImages(c) ==
    {[zoom_level |-> m.zoom_level, tile_column |-> m.tile_column,
      tile_row |-> m.tile_row, tile_data |-> im.tile_data, tile_hash |-> im.tile_id] :
        <<m, im>> \in {p \in c.map \X c.images : p[1].tile_id = p[2].tile_id}}

DropHash(rows) ==
    {[zoom_level |-> r.zoom_level, tile_column |-> r.tile_column,
      tile_row |-> r.tile_row, tile_data |-> r.tile_data] : r \in rows}

\* relation tiles_with_hash: a table of FlatWithHash, a view of Normalized
TilesWithHash(c, t) ==
    IF t = "FlatWithHash" THEN c.tiles_with_hash
    ELSE IF IsNormalized(t) THEN MapJoinImages(c)
    ELSE {}

\* relation tiles: a table of Flat, a view of the other layouts
Tiles(c, t) ==
    IF t = "Flat" THEN c.tiles ELSE DropHash(TilesWithHash(c, t))


(***************************************************************************)
(* Read paths                                                              *)
(***************************************************************************)
None == <<>>

Some(v) == <<v>>

AtCoord(rows, z, x, row) ==
    {r \in rows : r.zoom_level = z /\ r.tile_column = x /\ r.tile_row = row}

\* get_tile without the XYZ -> TMS conversion of the requested row
get_tile_no_invert(c, t, z, x, y) ==
    LET found == AtCoord(Tiles(c, t), z, x, y)
    IN IF found = {} THEN NULL ELSE (CHOOSE r \in found : TRUE).tile_data

\* Mbtiles::get_tile: the tile's bytes, or NULL (Option::None)
get_tile(c, t, z, x, y) ==
    LET row == invert_y_value(z, y)
        found == AtCoord(Tiles(c, t), z, x, row)
    IN IF found = {} THEN NULL ELSE (CHOOSE r \in found : TRUE).tile_data

\* get_tile_and_hash_sql computing the hash of a Flat tile from its bytes
get_tile_and_hash_sql_flat_md5(t) ==
    CASE t = "Flat" -> [from |-> "tiles", hash |-> "md5_hex(tile_data)"]
      [] t \in {"FlatWithHash", "NormalizedHashView"} ->
            [from |-> "tiles_with_hash", hash |-> "tile_hash"]
      [] t = "Normalized" -> [from |-> "map JOIN images", hash |-> "images.tile_id"]

\* get_tile_and_hash_sql reading a Normalized container without hash view as Flat
get_tile_and_hash_sql_join_null(t) ==
    CASE t \in {"Flat", "Normalized"} -> [from |-> "tiles", hash |-> "NULL"]
      [] t \in {"FlatWithHash", "NormalizedHashView"} ->
            [from |-> "tiles_with_hash", hash |-> "tile_hash"]

\* Mbtiles::get_tile_and_hash_sql: the relation read and the hash column
get_tile_and_hash_sql(t) ==
    CASE t = "Flat" -> [from |-> "tiles", hash |-> "NULL"]
      [] t \in {"FlatWithHash", "NormalizedHashView"} ->
            [from |-> "tiles_with_hash", hash |-> "tile_hash"]
      [] t = "Normalized" -> [from |-> "map JOIN images", hash |-> "images.tile_id"]

\* the rows a get_tile_and_hash statement selects from, as (coordinate, tile_data, hash)
SelectFrom(c, t, sql) ==
    CASE sql.from = "tiles" ->
            {[zoom_level |-> r.zoom_level, tile_column |-> r.tile_column,
              tile_row |-> r.tile_row, tile_data |-> r.tile_data,
              tile_hash |-> IF sql.hash = "NULL" THEN NULL ELSE md5_hex(r.tile_data)] :
                r \in Tiles(c, t)}
      [] sql.from = "tiles_with_hash" -> TilesWithHash(c, t)
      [] sql.from = "map JOIN images" -> MapJoinImages(c)

\* Mbtiles::get_tile_and_hash: None, or <<bytes, hash>> with hash NULL for Option::None
get_tile_and_hash(c, t, z, x, y) ==
    LET sql == get_tile_and_hash_sql(t)
        row == invert_y_value(z, y)
        found == AtCoord(SelectFrom(c, t, sql), z, x, row)
    IN IF found = {} THEN None
       ELSE LET r == CHOOSE r \in found : TRUE IN <<r.tile_data, r.tile_hash>>

(***************************************************************************)
(* Write path                                                              *)
(***************************************************************************)
\* get_insert_sql with the conflict clause fixed, whatever the duplicate mode
get_insert_sql_fixed(src_type, on_dup) ==
    CASE src_type = "Flat" ->
            [sql1 |-> [into |-> "tiles", conflict |-> on_dup], sql2 |-> None]
      [] src_type = "FlatWithHash" ->
            [sql1 |-> [into |-> "tiles_with_hash", conflict |-> on_dup], sql2 |-> None]
      [] IsNormalized(src_type) ->
            [sql1 |-> [into |-> "map", conflict |-> on_dup],
             sql2 |-> Some([into |-> "images", conflict |-> on_dup])]

get_insert_sql_always_replace(src_type, mode) == get_insert_sql_fixed(src_type, "OR REPLACE")

get_insert_sql_always_ignore(src_type, mode) == get_insert_sql_fixed(src_type, "OR IGNORE")

\* get_insert_sql without a content-table statement for any variant
get_insert_sql_index_only(src_type, mode) ==
    LET on_dup == to_sql(mode)
    IN CASE src_type = "Flat" ->
            [sql1 |-> [into |-> "tiles", conflict |-> on_dup], sql2 |-> None]
         [] src_type = "FlatWithHash" ->
            [sql1 |-> [into |-> "tiles_with_hash", conflict |-> on_dup], sql2 |-> None]
         [] IsNormalized(src_type) ->
            [sql1 |-> [into |-> "map", conflict |-> on_dup], sql2 |-> None]

\* Mbtiles::get_insert_sql: the index/tile statement sql1 and, for
\* Normalized, the content-table statement sql2
get_insert_sql(src_type, mode) ==
    LET on_dup == to_sql(mode)
    IN CASE src_type = "Flat" ->
            [sql1 |-> [into |-> "tiles", conflict |-> on_dup], sql2 |-> None]
         [] src_type = "FlatWithHash" ->
            [sql1 |-> [into |-> "tiles_with_hash", conflict |-> on_dup], sql2 |-> None]
         [] IsNormalized(src_type) ->
            [sql1 |-> [into |-> "map", conflict |-> on_dup],
             sql2 |-> Some([into |-> "images", conflict |-> on_dup])]

\* the VALUES (...) lists with the index row's tile_id bound to the raw blob
InsertValuesIdNotHashed(table, b) ==
    CASE table = "tiles" ->
            [zoom_level |-> b[1], tile_column |-> b[2], tile_row |-> b[3],
             tile_data |-> b[4]]
      [] table = "tiles_with_hash" ->
            [zoom_level |-> b[1], tile_column |-> b[2], tile_row |-> b[3],
             tile_data |-> b[4], tile_hash |-> md5_hex(b[4])]
      [] table = "map" ->
            [zoom_level |-> b[1], tile_column |-> b[2], tile_row |-> b[3],
             tile_id |-> b[4]]
      [] table = "images" ->
            [tile_id |-> md5_hex(b[1]), tile_data |-> b[1]]

\* the VALUES (...) lists with the hash column taken from another blob than the row's
InsertValuesHashOfOtherBlob(table, b) ==
    CASE table = "tiles" ->
            [zoom_level |-> b[1], tile_column |-> b[2], tile_row |-> b[3],
             tile_data |-> b[4]]
      [] table = "tiles_with_hash" ->
            [zoom_level |-> b[1], tile_column |-> b[2], tile_row |-> b[3],
             tile_data |-> b[4], tile_hash |-> md5_hex("A")]
      [] table = "map" ->
            [zoom_level |-> b[1], tile_column |-> b[2], tile_row |-> b[3],
             tile_id |-> md5_hex("A")]
      [] table = "images" ->
            [tile_id |-> md5_hex("A"), tile_data |-> b[1]]

\* the VALUES (...) list of each statement over its bound parameters b
InsertValues(table, b) ==
    CASE table = "tiles" ->
            [zoom_level |-> b[1], tile_column |-> b[2], tile_row |-> b[3],
             tile_data |-> b[4]]
      [] table = "tiles_with_hash" ->
            [zoom_level |-> b[1], tile_column |-> b[2], tile_row |-> b[3],
             tile_data |-> b[4], tile_hash |-> md5_hex(b[4])]
      [] table = "map" ->
            [zoom_level |-> b[1], tile_column |-> b[2], tile_row |-> b[3],
             tile_id |-> md5_hex(b[4])]
      [] table = "images" ->
            [tile_id |-> md5_hex(b[1]), tile_data |-> b[1]]

\* INSERT <conflict> INTO table: the conflict resolution on the primary key
ExecInsert(rows, table, conflict, row) ==
    LET clash == {r \in rows : SameKey(table, r, row)}
    IN CASE clash = {} -> [ok |-> TRUE, rows |-> rows \cup {row}]
         [] clash # {} /\ conflict = "OR IGNORE" -> [ok |-> TRUE, rows |-> rows]
         [] clash # {} /\ conflict = "OR REPLACE" ->
                [ok |-> TRUE, rows |-> (rows \ clash) \cup {row}]
         [] clash # {} /\ conflict = "OR ABORT" -> [ok |-> FALSE, rows |-> rows]

\* one execute() of a prepared statement with parameters b
Execute(c, stmt, b) ==
    LET r == ExecInsert(c[stmt.into], stmt.into, stmt.conflict, InsertValues(stmt.into, b))
    IN [ok |-> r.ok, c |-> [c EXCEPT ![stmt.into] = r.rows]]

\* sql2.query().bind(tile_data)
Sql2Binds(rec) == <<rec[4]>>

\* the index statement bound with the caller's row as it came
Sql1BindsKeepsRow(rec) == <<rec[1], rec[2], rec[3], rec[4]>>

\* sql1.query().bind(z).bind(x).bind(invert_y_value(z, y)).bind(tile_data)
Sql1Binds(rec) == <<rec[1], rec[2], invert_y_value(rec[1], rec[3]), rec[4]>>

\* statements executed on the connection itself: nothing is undone
RollbackKeepsWrites(committed, working) == working

\* the file content left when the transaction is dropped without commit
Rollback(committed, working) == committed

\* statements executed on the connection itself: each is visible at once
VisibleUncommitted(committed, working) == working

\* the content another handle reads while the transaction is open
Visible(committed, working) == committed

(***************************************************************************)
(* Mbtiles::insert_tiles, one statement per step                           *)
(***************************************************************************)
\* no call has returned yet
NoResult == [kind |-> "none", at |-> "idle"]

\* no whole call has been made on the handle yet
NoCall == [op |-> "none"]

\* no stream is borrowed from the handle
NoStream == [state |-> "none"]

\* the second file before anything was written to it
NoFile == [mbt_type |-> "Flat", c |-> EmptyContainer, metadata |-> {}]

InFlight == pc \in {"sql2", "sql1", "commit"}

\* a call that goes straight to the index loop, without the content loop
FirstPcIndexFirst(sqls, b) ==
    IF Len(b) > 0 THEN "sql1" ELSE "commit"

\* where the call stands after conn.begin() and get_insert_sql
FirstPc(sqls, b) ==
    IF sqls.sql2 # None /\ Len(b) > 0 THEN "sql2"
    ELSE IF Len(b) > 0 THEN "sql1"
    ELSE "commit"

\* let mut tx = conn.begin().await?; let (sql1, sql2) = get_insert_sql(..)
Begin(mode, b) ==
    /\ UNCHANGED ext
    /\ pc = "idle"
    /\ on_duplicate' = mode
    /\ batch' = b
    /\ pre' = db
    /\ tx' = db
    /\ idx' = 1
    /\ result' = NoResult
    /\ obs' = None
    /\ pc' = FirstPc(get_insert_sql(mbt_type, mode), b)
    /\ stmts' = <<>>
    /\ UNCHANGED <<mbt_type, db, rep, sync, got>>

\* the `?` of a failed statement: the call returns Err and tx is dropped
Fail(kind) ==
    /\ result' = [kind |-> kind, at |-> pc]
    /\ db' = Rollback(db, tx)
    /\ tx' = db'
    /\ pc' = "done"
    /\ UNCHANGED <<mbt_type, on_duplicate, batch, idx, pre, obs, rep, sync, got, stmts>>

\* for (_, _, _, tile_data) in batch { sql2.query().bind(tile_data).execute(tx) }
ExecSql2 ==
    /\ UNCHANGED ext
    /\ pc = "sql2"
    /\ LET stmt == get_insert_sql(mbt_type, on_duplicate).sql2[1]
           r == Execute(tx, stmt, Sql2Binds(batch[idx]))
       IN IF r.ok
          THEN /\ tx' = r.c
               /\ idx' = IF idx = Len(batch) THEN 1 ELSE idx + 1
               /\ pc' = IF idx = Len(batch) THEN "sql1" ELSE "sql2"
               /\ stmts' = Append(stmts, stmt.into)
               /\ UNCHANGED <<mbt_type, db, on_duplicate, batch, result, pre, obs, rep, sync, got>>
          ELSE Fail("Constraint")

\* for (z, x, y, tile_data) in batch { let y = invert_y_value(z, y); sql1...execute(tx) }
ExecSql1 ==
    /\ UNCHANGED ext
    /\ pc = "sql1"
    /\ LET stmt == get_insert_sql(mbt_type, on_duplicate).sql1
           r == Execute(tx, stmt, Sql1Binds(batch[idx]))
       IN IF r.ok
          THEN /\ tx' = r.c
               /\ idx' = IF idx = Len(batch) THEN 1 ELSE idx + 1
               /\ pc' = IF idx = Len(batch) THEN "commit" ELSE "sql1"
               /\ stmts' = Append(stmts, stmt.into)
               /\ UNCHANGED <<mbt_type, db, on_duplicate, batch, result, pre, obs, rep, sync, got>>
          ELSE Fail("Constraint")

\* tx.commit().await?; Ok(())
Commit ==
    /\ UNCHANGED ext
    /\ pc = "commit"
    /\ db' = tx
    /\ result' = [kind |-> "Ok", at |-> pc]
    /\ pc' = "done"
    /\ UNCHANGED <<mbt_type, tx, on_duplicate, batch, idx, pre, obs, rep, sync, got, stmts>>

\* the caller takes the result; the handle is free for the next call
Return ==
    /\ UNCHANGED ext
    /\ pc = "done"
    /\ pc' = "idle"
    /\ on_duplicate' = "Abort"
    /\ batch' = <<>>
    /\ idx' = 1
    /\ result' = NoResult
    /\ pre' = db
    /\ obs' = None
    /\ stmts' = <<>>
    /\ UNCHANGED <<mbt_type, db, tx, rep, sync, got>>

\* an I/O or connection failure of the awaited prepare/execute/commit
IoError ==
    /\ UNCHANGED ext
    /\ InFlight
    /\ Fail("Io")

\* a read from an independent handle, between two statements of the call or after it
Reader ==
    /\ UNCHANGED ext
    /\ pc \in {"sql2", "sql1", "commit", "done"}
    /\ obs' = Some(IF pc = "done" THEN db ELSE Visible(db, tx))
    /\ obs' # obs
    /\ UNCHANGED <<mbt_type, db, tx, pc, on_duplicate, batch, idx, result, pre, rep, sync, got, stmts>>

Init ==
    /\ mbt_type \in MbtTypes
    /\ db = EmptyContainer
    /\ tx = EmptyContainer
    /\ pc = "idle"
    /\ on_duplicate = "Abort"
    /\ batch = <<>>
    /\ idx = 1
    /\ result = NoResult
    /\ pre = db
    /\ obs = None
    /\ rep = [t \in MbtTypes |-> EmptyContainer]
    /\ sync = TRUE
    /\ got = None
    /\ stmts = <<>>
    /\ call = NoCall
    /\ stream = NoStream
    /\ metadata = {}
    /\ dst = NoFile

InsertTiles == \E mode \in CopyDuplicateModes, b \in Batches : Begin(mode, b)

Next ==
    \/ InsertTiles
    \/ ExecSql2
    \/ ExecSql1
    \/ Commit
    \/ Return
    \/ IoError
    \/ Reader

Spec == Init /\ [][Next]_vars

(***************************************************************************)
(* Mbtiles::insert_tiles as one call, for containers fed in lockstep       *)
(***************************************************************************)
RECURSIVE ExecuteAll(_, _, _, _)
\* the for loop over the batch: stops at the first failed execute()
ExecuteAll(c, stmt, binds, k) ==
    IF k > Len(binds) THEN [ok |-> TRUE, c |-> c]
    ELSE LET r == Execute(c, stmt, binds[k])
         IN IF r.ok THEN ExecuteAll(r.c, stmt, binds, k + 1) ELSE [ok |-> FALSE, c |-> r.c]

\* the whole call on container c of variant t: its result and the content left
insert_tiles(c, t, mode, b) ==
    LET sqls == get_insert_sql(t, mode)
        r2 == IF sqls.sql2 = None THEN [ok |-> TRUE, c |-> c]
              ELSE ExecuteAll(c, sqls.sql2[1], [k \in 1..Len(b) |-> Sql2Binds(b[k])], 1)
        r1 == IF r2.ok
              THEN ExecuteAll(r2.c, sqls.sql1, [k \in 1..Len(b) |-> Sql1Binds(b[k])], 1)
              ELSE r2
    IN IF r1.ok THEN [result |-> "Ok", c |-> r1.c]
       ELSE [result |-> "Constraint", c |-> Rollback(c, r1.c)]

\* the same call made on the container of every variant
InsertEverywhere(mode, b) ==
    /\ UNCHANGED ext
    /\ rep' = [t \in MbtTypes |-> insert_tiles(rep[t], t, mode, b).c]
    /\ sync' = (sync /\ \A t1, t2 \in MbtTypes :
                    insert_tiles(rep[t1], t1, mode, b).result
                        = insert_tiles(rep[t2], t2, mode, b).result)
    /\ got' = None
    /\ UNCHANGED <<mbt_type, db, tx, pc, on_duplicate, batch, idx, result, pre, obs, stmts>>

InitPaths ==
    /\ mbt_type = "Flat"
    /\ db = EmptyContainer
    /\ tx = EmptyContainer
    /\ pc = "idle"
    /\ on_duplicate = "Abort"
    /\ batch = <<>>
    /\ idx = 1
    /\ result = NoResult
    /\ pre = db
    /\ obs = None
    /\ rep = [t \in MbtTypes |-> EmptyContainer]
    /\ sync = TRUE
    /\ got = None
    /\ stmts = <<>>
    /\ call = NoCall
    /\ stream = NoStream
    /\ metadata = {}
    /\ dst = NoFile

\* get_tile_and_hash(conn, mbt_type, z, x, y) on the container of every variant
ReadEverywhere(coord) ==
    /\ UNCHANGED ext
    /\ got' = <<coord, [t \in MbtTypes |->
                    get_tile_and_hash(rep[t], t, coord[1], coord[2], coord[3])]>>
    /\ got = None
    /\ UNCHANGED <<mbt_type, db, tx, pc, on_duplicate, batch, idx, result, pre, obs,
                   rep, sync, stmts>>

NextPaths ==
    \/ \E mode \in CopyDuplicateModes, b \in Batches : InsertEverywhere(mode, b)
    \/ \E coord \in Coords : ReadEverywhere(coord)

SpecPaths == InitPaths /\ [][NextPaths]_vars

(***************************************************************************)
(* Vocabulary of the properties                                            *)
(***************************************************************************)
CoordOf(rec) == <<rec[1], rec[2], rec[3]>>

\* get_tile / get_tile_and_hash on a content of this container, at an XYZ coordinate
ReadTile(c, coord) == get_tile(c, mbt_type, coord[1], coord[2], coord[3])

ReadTileAndHash(c, coord) == get_tile_and_hash(c, mbt_type, coord[1], coord[2], coord[3])

BatchCoords == {CoordOf(batch[k]) : k \in 1..Len(batch)}

PositionsAt(coord) == {k \in 1..Len(batch) : CoordOf(batch[k]) = coord}

FirstAt(coord) == CHOOSE k \in PositionsAt(coord) : \A j \in PositionsAt(coord) : k <= j

LastAt(coord) == CHOOSE k \in PositionsAt(coord) : \A j \in PositionsAt(coord) : k >= j

DistinctCoords == \A j, k \in 1..Len(batch) : CoordOf(batch[j]) = CoordOf(batch[k]) => j = k

\* record k meets a tile stored before the call at its coordinate, with other content
Collides(k) == ReadTile(pre, CoordOf(batch[k])) \notin {NULL, batch[k][4]}

\* the bytes a coordinate of the batch holds once every record took effect
Expected(coord) ==
    CASE on_duplicate = "Override" -> batch[LastAt(coord)][4]
      [] on_duplicate = "Ignore" ->
            IF ReadTile(pre, coord) # NULL THEN ReadTile(pre, coord)
            ELSE batch[FirstAt(coord)][4]
      [] on_duplicate = "Abort" -> batch[FirstAt(coord)][4]

AllApplied(c) == \A coord \in BatchCoords : ReadTile(c, coord) = Expected(coord)

Returned == pc = "done"

ReturnedOk == pc = "done" /\ result.kind = "Ok"

ReturnedErr == pc = "done" /\ result.kind \in {"Constraint", "Io"}

(***************************************************************************)
(* Properties                                                              *)
(***************************************************************************)
\* C1: insert_tiles is all-or-nothing.  When the call has returned, either it
\* returned Ok and every coordinate of the batch reads as the batch's records
\* make it, or it returned an error (a constraint failure or an I/O failure, at
\* any statement) and the container is exactly the content it had before.
C1_AllOrNothing ==
    Returned =>
        \/ result.kind = "Ok" /\ AllApplied(db)
        \/ result.kind \in {"Constraint", "Io"} /\ db = pre

\* C1 witness: under Normalized the call failed at an index statement, after
\* the content-table statements and an earlier index statement had been executed.
C1_Witness ==
    /\ ReturnedErr
    /\ IsNormalized(mbt_type)
    /\ result.at = "sql1"
    /\ idx = 2

\* C2: duplicate mode Abort.  When a record of the batch meets a stored tile
\* with other content, the call fails, the container is left as it was, and
\* every coordinate (colliding or not) reads as before the call.
C2_AbortCollisionFailsWhole ==
    (Returned /\ on_duplicate = "Abort" /\ \E k \in 1..Len(batch) : Collides(k)) =>
        /\ result.kind # "Ok"
        /\ db = pre
        /\ \A coord \in Coords : ReadTile(db, coord) = ReadTile(pre, coord)

\* C2 witness: the colliding record came second, after a record at a free
\* coordinate had been written inside the transaction.
C2_Witness ==
    /\ Returned /\ on_duplicate = "Abort"
    /\ result = [kind |-> "Constraint", at |-> "sql1"]
    /\ Len(batch) = 2
    /\ ReadTile(pre, CoordOf(batch[1])) = NULL
    /\ Collides(2)

\* C3: duplicate mode Ignore.  A record that meets a stored tile with other
\* content never makes the call fail on a constraint, and after the call
\* returned Ok the coordinate reads the content stored before the call.
C3_IgnoreKeepsFirst ==
    (Returned /\ on_duplicate = "Ignore") =>
        \A k \in 1..Len(batch) :
            Collides(k) =>
                /\ result.kind # "Constraint"
                /\ result.kind = "Ok" =>
                      ReadTile(db, CoordOf(batch[k])) = ReadTile(pre, CoordOf(batch[k]))

C3_Witness ==
    /\ ReturnedOk /\ on_duplicate = "Ignore"
    /\ IsNormalized(mbt_type)
    /\ \E k \in 1..Len(batch) : Collides(k)

\* the hash get_tile_and_hash reports for bytes d under this container's variant
HashOf(d) == IF mbt_type = "Flat" THEN NULL ELSE md5_hex(d)

\* C4: duplicate mode Override.  A record that meets a stored tile with other
\* content never makes the call fail on a constraint, and after the call
\* returned Ok the coordinate reads the bytes of the batch's last record at it,
\* with that content's hash where the variant stores one.
C4_OverrideTakesSecond ==
    (Returned /\ on_duplicate = "Override") =>
        \A k \in 1..Len(batch) :
            Collides(k) =>
                /\ result.kind # "Constraint"
                /\ result.kind = "Ok" =>
                      LET coord == CoordOf(batch[k])
                          d == batch[LastAt(coord)][4]
                      IN /\ ReadTile(db, coord) = d
                         /\ ReadTileAndHash(db, coord) = <<d, HashOf(d)>>

C4_Witness ==
    /\ ReturnedOk /\ on_duplicate = "Override"
    /\ mbt_type = "FlatWithHash"
    /\ \E k \in 1..Len(batch) :
          /\ Collides(k)
          /\ ReadTile(db, CoordOf(batch[k])) # ReadTile(pre, CoordOf(batch[k]))

\* C5: round trip.  A batch with distinct coordinates inserted into an empty
\* container reads back, through get_tile at the same XYZ coordinate, the bytes
\* of every record, under every variant.
C5_RoundTrip ==
    (ReturnedOk /\ pre = EmptyContainer /\ DistinctCoords) =>
        \A k \in 1..Len(batch) : ReadTile(db, CoordOf(batch[k])) = batch[k][4]

C5_Witness ==
    /\ ReturnedOk /\ pre = EmptyContainer /\ DistinctCoords
    /\ Len(batch) = 2
    /\ batch[1][4] # batch[2][4]

\* the content rows an index row references
Referenced(c, m) == {im \in c.images : im.tile_id = m.tile_id}

\* C6: deduplication under Normalized.  In the committed container every index
\* row references a content row, and for any two index rows whose content is
\* byte-identical the content table holds exactly one row with these bytes and
\* both index rows carry that row's content id.
C6_Deduplication ==
    IsNormalized(mbt_type) =>
        \A m1, m2 \in db.map :
            /\ Referenced(db, m1) # {}
            /\ \A i1 \in Referenced(db, m1), i2 \in Referenced(db, m2) :
                  i1.tile_data = i2.tile_data =>
                      /\ Cardinality({im \in db.images : im.tile_data = i1.tile_data}) = 1
                      /\ m1.tile_id = i1.tile_id
                      /\ m2.tile_id = i1.tile_id

\* C6 witness: two coordinates stored by different calls hold the same bytes.
C6_Witness ==
    /\ IsNormalized(mbt_type)
    /\ ReturnedOk
    /\ pre.map # {}
    /\ \E m1, m2 \in db.map :
          /\ m1 # m2
          /\ m1 \in pre.map /\ m2 \notin pre.map
          /\ m1.tile_id = m2.tile_id
          /\ Referenced(db, m1) # {}

\* the batch brings bytes that a content row already holds: a row stored before
\* the call, or the row of an earlier record of the same batch
BringsStoredContent ==
    \E k \in 1..Len(batch) :
        \/ \E im \in pre.images : im.tile_data = batch[k][4]
        \/ \E j \in 1..(k - 1) : batch[j][4] = batch[k][4]

\* no record of the batch meets a tile stored before the call or another record
NoCoordinateCollision ==
    /\ DistinctCoords
    /\ \A k \in 1..Len(batch) : ReadTile(pre, CoordOf(batch[k])) = NULL

\* C7: under Normalized the content-table write is "insert, ignore if present"
\* whatever the duplicate mode: a batch at free coordinates whose bytes a content
\* row already holds does not fail on a constraint, in any mode, and after Ok
\* the content rows stored before the call are still there.
C7_ContentWriteIgnoresPresent ==
    (Returned /\ IsNormalized(mbt_type) /\ NoCoordinateCollision /\ BringsStoredContent) =>
        /\ result.kind # "Constraint"
        /\ result.kind = "Ok" => pre.images \subseteq db.images

\* C8: a reader on an independent handle never observes a partially applied
\* batch.  Every snapshot read during or after the call shows the content
\* before the call or the content with every record applied, and under
\* Normalized no index row without its content row.
C8_NoPartialBatchObserved ==
    obs # None =>
        LET o == obs[1]
        IN /\ \/ o = pre
              \/ AllApplied(o)
           /\ \A coord \in Coords :
                 \/ ReadTileAndHash(o, coord) = ReadTileAndHash(pre, coord)
                 \/ coord \in BatchCoords /\ AllApplied(o)
           /\ IsNormalized(mbt_type) => \A m \in o.map : Referenced(o, m) # {}

\* C8 witness: the reader read between two statements of the call, after the
\* transaction had written a content row and an index row.
C8_Witness ==
    /\ obs # None
    /\ pc = "sql1" /\ idx = 2
    /\ IsNormalized(mbt_type)
    /\ tx.map # db.map
    /\ tx.images # db.images

U32Bits == 3

U8Bits == 3

U32Max == (2 ^ U32Bits) - 1

U8Max == (2 ^ U8Bits) - 1

\* values a fetched integer column can hold: negative, in range, beyond u8 and u32
RawInts == (-1)..(U32Max + 1) \cup {U8Max + 1}

\* a fetched column: None for SQL NULL
RawColumns == {None} \cup {Some(v) : v \in RawInts}

\* how the build treats integer overflow: overflow checks on (panic) or off (wrap)
Builds == {"checked", "wrapping"}

\* TileCoord::is_possible_on_zoom_level(z, x, y)
is_possible_on_zoom_level(z, x, y) == x < 2 ^ z /\ y < 2 ^ z

\* (1u32 << zoom) - 1 - y stays inside u32: legal shift, no borrow
InvertDefined(zoom, y) == zoom < U32Bits /\ y <= (2 ^ zoom) - 1

\* the same expression with the shift amount masked and the subtraction wrapped
invert_y_value_wrapped(zoom, y) == (((2 ^ (zoom % U32Bits)) - 1) - y) % (2 ^ U32Bits)

\* invert_y_value(zoom, y) as a given build evaluates it
invert_y_value_in(build, zoom, y) ==
    IF InvertDefined(zoom, y) THEN [panic |-> FALSE, value |-> invert_y_value(zoom, y)]
    ELSE IF build = "checked" THEN [panic |-> TRUE, value |-> 0]
    ELSE [panic |-> FALSE, value |-> invert_y_value_wrapped(zoom, y)]

\* a call that returned v / a call that panicked
Returns(v) == [panic |-> FALSE, value |-> v]

Panics == [panic |-> TRUE, value |-> None]

parse_tile_index_unchecked(build, z, x, y) ==
    IF z = None \/ x = None \/ y = None THEN Returns(None)
    ELSE IF z[1] \notin 0..U8Max \/ x[1] \notin 0..U32Max \/ y[1] \notin 0..U32Max
    THEN Returns(None)
    ELSE LET inv == invert_y_value_in(build, z[1], y[1])
         IN IF inv.panic THEN Panics ELSE Returns(Some(<<z[1], x[1], inv.value>>))

parse_tile_index_keeps_row(build, z, x, y) ==
    IF z = None \/ x = None \/ y = None THEN Returns(None)
    ELSE IF z[1] \notin 0..U8Max \/ x[1] \notin 0..U32Max \/ y[1] \notin 0..U32Max
    THEN Returns(None)
    ELSE IF ~is_possible_on_zoom_level(z[1], x[1], y[1]) THEN Returns(None)
    ELSE Returns(Some(<<z[1], x[1], y[1]>>))

\* parse_tile_index(z, x, y) on three fetched columns
parse_tile_index(build, z, x, y) ==
    IF z = None \/ x = None \/ y = None THEN Returns(None)
    ELSE IF z[1] \notin 0..U8Max \/ x[1] \notin 0..U32Max \/ y[1] \notin 0..U32Max
    THEN Returns(None)
    ELSE IF ~is_possible_on_zoom_level(z[1], x[1], y[1]) THEN Returns(None)
    ELSE LET inv == invert_y_value_in(build, z[1], y[1])
         IN IF inv.panic THEN Panics ELSE Returns(Some(<<z[1], x[1], inv.value>>))

\* the (zoom, row) pairs parse_tile_index hands to invert_y_value
parse_tile_index_inverts(z, x, y) ==
    IF z = None \/ x = None \/ y = None THEN {}
    ELSE IF z[1] \notin 0..U8Max \/ x[1] \notin 0..U32Max \/ y[1] \notin 0..U32Max THEN {}
    ELSE IF ~is_possible_on_zoom_level(z[1], x[1], y[1]) THEN {}
    ELSE {<<z[1], y[1]>>}

\* Mbtiles::get_tile(conn, z, x, y) as a given build runs it
get_tile_in(build, c, t, z, x, y) ==
    LET inv == invert_y_value_in(build, z, y)
    IN IF inv.panic THEN Panics
       ELSE LET rows == AtCoord(Tiles(c, t), z, x, inv.value)
            IN Returns(IF rows = {} THEN None ELSE Some((CHOOSE r \in rows : TRUE).tile_data))

\* Mbtiles::get_tile_and_hash(conn, mbt_type, z, x, y) as a given build runs it
get_tile_and_hash_in(build, c, t, z, x, y) ==
    LET inv == invert_y_value_in(build, z, y)
    IN IF inv.panic THEN Panics
       ELSE LET rows == AtCoord(SelectFrom(c, t, get_tile_and_hash_sql(t)), z, x, inv.value)
            IN Returns(IF rows = {} THEN None
                       ELSE LET r == CHOOSE r \in rows : TRUE
                            IN Some(<<r.tile_data, r.tile_hash>>))

RECURSIVE Sql1Loop(_, _, _, _, _)
\* the second loop of insert_tiles: invert the row, bind, execute, for each record
Sql1Loop(build, c, stmt, b, k) ==
    IF k > Len(b) THEN [result |-> "Ok", c |-> c, inv |-> {}, bound |-> {}]
    ELSE LET inv == invert_y_value_in(build, b[k][1], b[k][3])
             binds == <<b[k][1], b[k][2], inv.value, b[k][4]>>
             r == Execute(c, stmt, binds)
             rest == Sql1Loop(build, r.c, stmt, b, k + 1)
         IN IF inv.panic
            THEN [result |-> "Panic", c |-> c, inv |-> {<<b[k][1], b[k][3]>>},
                  bound |-> {}]
            ELSE IF ~r.ok
            THEN [result |-> "Constraint", c |-> r.c, inv |-> {<<b[k][1], b[k][3]>>},
                  bound |-> {<<k, binds>>}]
            ELSE [result |-> rest.result, c |-> rest.c,
                  inv |-> rest.inv \cup {<<b[k][1], b[k][3]>>},
                  bound |-> rest.bound \cup {<<k, binds>>}]

\* Mbtiles::insert_tiles as a given build runs it, for any u8 zoom and u32 column and row;
\* `bound2` and `bound1` are the values handed to the content and to the index statement,
\* by position of the record in the batch
insert_tiles_in(build, c, t, mode, b) ==
    LET sqls == get_insert_sql(t, mode)
        binds2 == [k \in 1..Len(b) |-> Sql2Binds(b[k])]
        r2 == IF sqls.sql2 = None THEN [ok |-> TRUE, c |-> c]
              ELSE ExecuteAll(c, sqls.sql2[1], binds2, 1)
        r1 == IF r2.ok THEN Sql1Loop(build, r2.c, sqls.sql1, b, 1)
              ELSE [result |-> "Constraint", c |-> r2.c, inv |-> {}, bound |-> {}]
    IN [result |-> r1.result,
        c |-> IF r1.result = "Ok" THEN r1.c ELSE Rollback(c, r1.c),
        inv |-> r1.inv,
        bound1 |-> r1.bound,
        bound2 |-> IF sqls.sql2 = None THEN {}
                   ELSE {<<k, binds2[k]>> : k \in 1..Len(b)}]

(***************************************************************************)
(* Whole calls with arbitrary arguments on a new container                 *)
(***************************************************************************)
\* arguments a caller can pass as (z: u8, x: u32, y: u32): every zoom and row,
\* the smallest columns and the largest one
RawCoords == {<<z, x, y>> : z \in 0..U8Max, x \in {0, 1, U32Max}, y \in 0..U32Max}

\* a record that is valid on its zoom level, written before the arbitrary one
ValidRecord == <<1, 0, 0, "A">>

\* batches of one arbitrary record, alone or after a valid one
RawBatches ==
    {<<<<c[1], c[2], c[3], "B">>>> : c \in RawCoords}
        \cup {<<ValidRecord, <<c[1], c[2], c[3], "B">>>> : c \in RawCoords}

\* parse_tile_index(z, x, y) on the columns of one fetched row
ParseTileIndex ==
    /\ call = NoCall
    /\ \E build \in Builds, z, x, y \in RawColumns :
        call' = [op |-> "parse_tile_index", build |-> build, args |-> <<z, x, y>>,
                 inv |-> parse_tile_index_inverts(z, x, y),
                 out |-> parse_tile_index(build, z, x, y)]
    /\ UNCHANGED <<mbt_type, db, stream, metadata, dst>>
    /\ UNCHANGED core

\* mbt.get_tile(conn, z, x, y)
GetTile ==
    /\ call = NoCall
    /\ \E build \in Builds, coord \in RawCoords :
        call' = [op |-> "get_tile", build |-> build, args |-> coord,
                 inv |-> {<<coord[1], coord[3]>>},
                 out |-> get_tile_in(build, db, mbt_type, coord[1], coord[2], coord[3])]
    /\ UNCHANGED <<mbt_type, db, stream, metadata, dst>>
    /\ UNCHANGED core

\* mbt.get_tile_and_hash(conn, mbt_type, z, x, y)
GetTileAndHash ==
    /\ call = NoCall
    /\ \E build \in Builds, coord \in RawCoords :
        call' = [op |-> "get_tile_and_hash", build |-> build, args |-> coord,
                 inv |-> {<<coord[1], coord[3]>>},
                 out |-> get_tile_and_hash_in(build, db, mbt_type,
                                              coord[1], coord[2], coord[3])]
    /\ UNCHANGED <<mbt_type, db, stream, metadata, dst>>
    /\ UNCHANGED core

\* mbt.insert_tiles(conn, mbt_type, on_duplicate, batch)
InsertTilesRaw ==
    /\ call = NoCall
    /\ \E build \in Builds, mode \in CopyDuplicateModes, b \in RawBatches :
        LET r == insert_tiles_in(build, db, mbt_type, mode, b)
        IN /\ call' = [op |-> "insert_tiles", build |-> build, args |-> <<mode, b>>,
                       inv |-> r.inv, bound1 |-> r.bound1, bound2 |-> r.bound2,
                       out |-> IF r.result = "Panic" THEN Panics
                               ELSE Returns(<<r.result>>)]
           /\ db' = r.c
    /\ UNCHANGED <<mbt_type, stream, metadata, dst>>
    /\ UNCHANGED core

\* the caller opens another new container
NewContainer ==
    /\ call # NoCall
    /\ call' = NoCall
    /\ db' = EmptyContainer
    /\ UNCHANGED <<mbt_type, stream, metadata, dst>>
    /\ UNCHANGED core

NextCoord ==
    \/ ParseTileIndex
    \/ GetTile
    \/ GetTileAndHash
    \/ InsertTilesRaw
    \/ NewContainer

SpecCoord == Init /\ [][NextCoord]_vars

(***************************************************************************)
(* Properties of the coordinate conversion                                 *)
(***************************************************************************)
\* zoom levels whose 2^zoom fits every integer type of the width of a u32, signed or not
SafeZooms == 0..(U32Bits - 2)

\* the cases in which a fetched row has no coordinate: a field is NULL, zoom is not
\* a u8, column or row is negative or not a u32, column or row is at least 2^zoom
RawRejected(z, x, y) ==
    \/ z = None \/ x = None \/ y = None
    \/ z[1] \notin 0..U8Max
    \/ x[1] < 0 \/ x[1] > U32Max
    \/ y[1] < 0 \/ y[1] > U32Max
    \/ x[1] >= 2 ^ z[1] \/ y[1] >= 2 ^ z[1]

\* the XYZ coordinate of a fetched row that is not rejected
RawConverted(z, x, y) == <<z[1], x[1], ((2 ^ z[1]) - 1) - y[1]>>

Parsed == call.op = "parse_tile_index"

StoredCoords(c) ==
    {<<r.zoom_level, r.tile_column, r.tile_row>> : r \in c.tiles}
        \cup {<<r.zoom_level, r.tile_column, r.tile_row>> : r \in c.tiles_with_hash}
        \cup {<<r.zoom_level, r.tile_column, r.tile_row>> : r \in c.map}

OnZoomLevel(coord) == coord[2] < 2 ^ coord[1] /\ coord[3] < 2 ^ coord[1]

Inserted == call.op = "insert_tiles"

\* C15: insert_tiles never stores a record whose column or row is at least 2^zoom:
\* after the call, in every duplicate mode, no row of the container has a column or
\* row outside [0, 2^zoom - 1].
C15_NoInvalidRowStored ==
    Inserted => \A coord \in StoredCoords(db) : OnZoomLevel(coord)

\* C19: row inversion is an involution on the valid rows, invert(z, invert(z, y)) = y
\* for 0 <= y < 2^z, and a record valid on its zoom level that insert_tiles stored is
\* decoded by parse_tile_index, from its stored row, to the caller's coordinate.
C19_InversionRoundTrip ==
    /\ \A z \in 0..(U32Bits - 1) : \A y \in 0..((2 ^ z) - 1) :
            invert_y_value(z, invert_y_value(z, y)) = y
    /\ (Inserted /\ call.out = Returns(<<"Ok">>)) =>
            \A k \in 1..Len(call.args[2]) :
                LET rec == call.args[2][k]
                IN OnZoomLevel(CoordOf(rec)) =>
                    \E r \in Tiles(db, mbt_type) :
                        /\ r.zoom_level = rec[1]
                        /\ r.tile_column = rec[2]
                        /\ parse_tile_index(call.build, Some(r.zoom_level),
                                            Some(r.tile_column), Some(r.tile_row))
                                = Returns(Some(CoordOf(rec)))

\* a record valid on zoom 1 was stored under another row index than the caller's
C19_Witness ==
    /\ Inserted
    /\ call.out = Returns(<<"Ok">>)
    /\ \E k \in 1..Len(call.args[2]) :
            /\ OnZoomLevel(CoordOf(call.args[2][k]))
            /\ call.args[2][k][1] = 1
            /\ \E r \in Tiles(db, mbt_type) : r.tile_row # call.args[2][k][3]

\* C21: for every record (z, x, y, data) of a batch and every variant, the values that
\* insert_tiles binds into the index/tile statement are zoom z, column x, row
\* (2^z - 1) - y and the bytes, once per record, and the content-table statement of
\* Normalized receives the bytes only.
C21_BoundRowIsTms ==
    Inserted =>
        /\ \A p \in call.bound1 :
                LET rec == call.args[2][p[1]]
                IN p[2] = <<rec[1], rec[2], ((2 ^ rec[1]) - 1) - rec[3], rec[4]>>
        /\ \A p, q \in call.bound1 : p[1] = q[1] => p = q
        /\ \A p \in call.bound2 : p[2] = <<call.args[2][p[1]][4]>>

\* C20: every call of invert_y_value made by get_tile, get_tile_and_hash, insert_tiles
\* and the decoding of a streamed row has a (zoom, row) with row <= 2^zoom - 1, so that
\* the subtraction cannot underflow, for any z: u8 and y: u32 of the caller.
C20_InversionOnlyAfterValidation ==
    call.op \in {"get_tile", "get_tile_and_hash", "insert_tiles", "parse_tile_index"}
        => \A p \in call.inv : p[2] <= (2 ^ p[1]) - 1

(***************************************************************************)
(* Mbtiles::stream_coords and Mbtiles::stream_tiles on one connection      *)
(*                                                                         *)
(* A stream is a cursor over the rows of `tiles`; each poll fetches one    *)
(* more row, in no particular order, and maps it to an item.  The records  *)
(* written here include one whose column is not on its zoom level, which   *)
(* insert_tiles stores and parse_tile_index later rejects.                 *)
(***************************************************************************)
StreamRecords == {<<1, 0, 0, "A">>, <<1, 0, 1, "B">>, <<1, 2, 0, "A">>}

StreamBatches == UNION {[1..n -> StreamRecords] : n \in 0..MaxBatch}

StreamKinds == {"coords", "tiles"}

\* the item a fetched row is mapped to: Ok(coord), Ok((coord, tile_data)), or
\* Err(InvalidTileIndex(filepath, z, x, y))
StreamItem(build, kind, row) ==
    LET out == parse_tile_index(build, Some(row.zoom_level), Some(row.tile_column),
                                Some(row.tile_row))
    IN IF out.panic
       THEN [ok |-> FALSE, err |-> "Panic",
             coord |-> <<row.zoom_level, row.tile_column, row.tile_row>>, data |-> NULL]
       ELSE IF out.value = None
       THEN [ok |-> FALSE, err |-> "InvalidTileIndex",
             coord |-> <<row.zoom_level, row.tile_column, row.tile_row>>, data |-> NULL]
       ELSE [ok |-> TRUE, err |-> "none", coord |-> out.value[1],
             data |-> IF kind = "tiles" THEN row.tile_data ELSE NULL]

stream_map_ends_at_error(item) == IF item.ok THEN "open" ELSE "ended"

\* stream.map(..): the mapped stream goes on after any item, Ok or Err
stream_map(item) == "open"

conn_borrowed_until_exhausted(s) == s.state = "open"

\* conn: &'e mut T is borrowed for as long as the returned stream lives
conn_borrowed(s) == s.state # "none"

\* a whole call on the handle, which the stream, if any, lets through
OnHandle(op) ==
    /\ ~conn_borrowed(stream)
    /\ call' = [op |-> op, saw |-> stream]

\* mbt.insert_tiles(conn, mbt_type, on_duplicate, batch) on a new container
StreamInsertTiles ==
    /\ db = EmptyContainer
    /\ OnHandle("insert_tiles")
    /\ \E mode \in CopyDuplicateModes, b \in StreamBatches :
        LET r == insert_tiles(db, mbt_type, mode, b)
        IN /\ db' = r.c
           /\ batch' = b
           /\ on_duplicate' = mode
           /\ result' = [kind |-> r.result, at |-> "done"]
    /\ UNCHANGED <<mbt_type, tx, pc, idx, pre, obs, rep, sync, got, stmts, stream, metadata, dst>>

\* mbt.get_tile(conn, z, x, y)
StreamGetTile ==
    /\ OnHandle("get_tile")
    /\ UNCHANGED <<mbt_type, db, stream, metadata, dst>>
    /\ UNCHANGED core

\* mbt.get_tile_and_hash(conn, mbt_type, z, x, y)
StreamGetTileAndHash ==
    /\ OnHandle("get_tile_and_hash")
    /\ UNCHANGED <<mbt_type, db, stream, metadata, dst>>
    /\ UNCHANGED core

\* let stream = mbt.stream_coords(conn) / mbt.stream_tiles(conn)
OpenStream ==
    /\ \E kind \in StreamKinds :
        /\ OnHandle(IF kind = "coords" THEN "stream_coords" ELSE "stream_tiles")
        /\ stream' = [state |-> "open", kind |-> kind, all |-> Tiles(db, mbt_type),
                      rest |-> Tiles(db, mbt_type), items |-> <<>>]
    /\ UNCHANGED <<mbt_type, db, metadata, dst>>
    /\ UNCHANGED core

\* stream.next().await: one more row mapped to an item, or the end of the rows
PollStream ==
    /\ stream.state = "open"
    /\ IF stream.rest = {}
       THEN stream' = [stream EXCEPT !.state = "ended"]
       ELSE \E row \in stream.rest, build \in Builds :
                LET item == StreamItem(build, stream.kind, row)
                IN stream' = [stream EXCEPT !.rest = @ \ {row},
                                            !.items = Append(@, item),
                                            !.state = stream_map(item)]
    /\ UNCHANGED <<mbt_type, db, call, metadata, dst>>
    /\ UNCHANGED core

\* drop(stream), after the last item or before it
DropStream ==
    /\ stream.state \in {"open", "ended"}
    /\ stream' = [state |-> "none", last |-> stream.state,
                  left |-> Cardinality(stream.rest)]
    /\ UNCHANGED <<mbt_type, db, call, metadata, dst>>
    /\ UNCHANGED core

NextStream ==
    \/ StreamInsertTiles
    \/ StreamGetTile
    \/ StreamGetTileAndHash
    \/ OpenStream
    \/ PollStream
    \/ DropStream

SpecStream == Init /\ [][NextStream]_vars

\* the consumer keeps pulling a stream it has not dropped
SpecStreamFair == SpecStream /\ WF_vars(PollStream)

(***************************************************************************)
(* Properties of the streams                                               *)
(***************************************************************************)
Streaming == stream.state \in {"open", "ended"}

Exhausted == stream.state = "ended"

\* the rows fetched so far
Fetched == stream.all \ stream.rest

RowCoord(row) == <<row.zoom_level, row.tile_column, row.tile_row>>

\* the positions at which the item of a fetched row stands
ItemsOf(row) ==
    {k \in 1..Len(stream.items) :
        \E build \in Builds : stream.items[k] = StreamItem(build, stream.kind, row)}

\* a row that parse_tile_index rejects
FailsToDecode(row) ==
    \A build \in Builds :
        parse_tile_index(build, Some(row.zoom_level), Some(row.tile_column),
                         Some(row.tile_row)) = Returns(None)

\* C11: a row that fails to decode is surfaced as one InvalidTileIndex error item and
\* the stream keeps going: every fetched row, decodable or not, has exactly one item,
\* the item of a row that fails to decode is the error, no row is skipped, and the
\* stream ends only when every row has been fetched.
C11_ErrorItemThenContinue ==
    Streaming =>
        /\ Len(stream.items) = Cardinality(Fetched)
        /\ \A row \in Fetched :
                /\ Cardinality(ItemsOf(row)) = 1
                /\ FailsToDecode(row) =>
                        \A k \in ItemsOf(row) :
                            ~stream.items[k].ok /\ stream.items[k].err = "InvalidTileIndex"
                /\ ~FailsToDecode(row) => \A k \in ItemsOf(row) : stream.items[k].ok
        /\ Exhausted => stream.rest = {}

\* a stream ended after an error item that was followed by an Ok item
C11_Witness ==
    /\ Exhausted
    /\ \E j, k \in 1..Len(stream.items) :
            /\ j < k
            /\ stream.items[j].err = "InvalidTileIndex"
            /\ stream.items[k].ok

\* the last insert_tiles stored its batch of distinct coordinates, all valid on their
\* zoom level, into the empty container
StoredDistinctValid ==
    /\ result.kind = "Ok"
    /\ DistinctCoords
    /\ \A k \in 1..Len(batch) : OnZoomLevel(CoordOf(batch[k]))

\* the stream has yielded exactly the coordinates of the batch, each once
YieldedTheBatch ==
    /\ Len(stream.items) = Len(batch)
    /\ \A k \in 1..Len(stream.items) : stream.items[k].ok
    /\ {stream.items[k].coord : k \in 1..Len(stream.items)} = BatchCoords

\* C12: after insert_tiles stored a set of distinct valid coordinates into an empty
\* container, stream_coords pulled to exhaustion has yielded exactly these coordinates,
\* in the caller's XYZ convention, each once; and a stream that is pulled ends.
C12_StreamYieldsStoredSet ==
    /\ [](StoredDistinctValid /\ Exhausted /\ stream.kind = "coords" => YieldedTheBatch)
    /\ (stream.state = "open" ~> stream.state # "open")

\* a stream of coordinates ended over two stored tiles
C12_Witness ==
    /\ StoredDistinctValid
    /\ Exhausted
    /\ stream.kind = "coords"
    /\ Len(batch) = 2
    /\ Len(stream.items) = 2

\* C13: while a stream of the handle is alive, open or ended but not dropped, no
\* get_tile, get_tile_and_hash, insert_tiles or second stream runs on the handle: every
\* call that ran found no stream alive, also after a stream dropped before its end.
C13_StreamHoldsHandle ==
    call.op \in {"get_tile", "get_tile_and_hash", "insert_tiles",
                 "stream_coords", "stream_tiles"}
        => call.saw.state = "none"

\* a call ran on the handle after a stream was dropped with rows left to fetch
C13_Witness ==
    /\ call.op \in {"get_tile", "get_tile_and_hash", "insert_tiles",
                    "stream_coords", "stream_tiles"}
    /\ call.saw # NoStream
    /\ call.saw.last = "open"
    /\ call.saw.left > 0

(***************************************************************************)
(* Copy between two container files, and patch application                 *)
(*                                                                         *)
(* The source file is (mbt_type, db, metadata), the second file is dst.    *)
(* A copy reads the source through stream_tiles and writes the second file *)
(* through insert_tiles with the variant of that file.                     *)
(***************************************************************************)
CopyTypes == {"All", "Metadata", "Tiles"}

copy_tiles_always(copy_type) == TRUE

\* CopyType::copy_tiles
copy_tiles(copy_type) == copy_type \in {"All", "Tiles"}

\* CopyType::copy_metadata
copy_metadata(copy_type) == copy_type \in {"All", "Metadata"}

\* rows of a metadata table: name is its key
SourceMetadata == {{}, {[name |-> "name", value |-> "x"]}}

DestMetadata == {{}, {[name |-> "name", value |-> "y"]}}

\* tiles a second file holds before the copy or the patch
DestBatches == {<<>>, <<<<1, 0, 0, "B">>>>}

\* the content a new container of variant t has after one insert_tiles of b
Filled(t, b) == insert_tiles(EmptyContainer, t, "Override", b).c

\* the orders in which a cursor can return a set of rows
Orders(rows) ==
    {f \in [1..Cardinality(rows) -> rows] :
        \A j, k \in 1..Cardinality(rows) : f[j] = f[k] => j = k}

\* the batch a copy makes of the items of stream_tiles, in the order they came
BatchOfItems(order) ==
    [k \in 1..Len(order) |->
        LET item == StreamItem("checked", "tiles", order[k])
        IN <<item.coord[1], item.coord[2], item.coord[3], item.data>>]

\* the metadata rows of the destination after the rows of the source were written
\* over them with the conflict clause of the duplicate mode
CopyMetadataRows(dm, sm, mode) ==
    LET clash == \E r \in dm, q \in sm : r.name = q.name
    IN CASE mode = "Override" ->
                [ok |-> TRUE,
                 rows |-> {r \in dm : \A q \in sm : q.name # r.name} \cup sm]
         [] mode = "Ignore" ->
                [ok |-> TRUE,
                 rows |-> dm \cup {q \in sm : \A r \in dm : r.name # q.name}]
         [] mode = "Abort" ->
                [ok |-> ~clash, rows |-> IF clash THEN dm ELSE dm \cup sm]

\* copy(source, destination, copy_type, duplicate_mode): the result and the destination
copy(c, t, sm, d, copy_type, mode, order) ==
    LET tiles == IF copy_tiles(copy_type)
                 THEN insert_tiles(d.c, d.mbt_type, mode, BatchOfItems(order))
                 ELSE [result |-> "Ok", c |-> d.c]
        meta == IF copy_metadata(copy_type)
                THEN CopyMetadataRows(d.metadata, sm, mode)
                ELSE [ok |-> TRUE, rows |-> d.metadata]
    IN IF tiles.result = "Ok" /\ meta.ok
       THEN [out |-> "Ok", dst |-> [d EXCEPT !.c = tiles.c, !.metadata = meta.rows]]
       ELSE [out |-> "Err", dst |-> d]

\* aggregate_hash(container): a digest of every tile's coordinate and content hash
aggregate_hash(c, t) ==
    {<<r.zoom_level, r.tile_column, r.tile_row, md5_hex(r.tile_data)>> : r \in Tiles(c, t)}

\* compute_patch(base, target) for two contents of variant t: the hashes that bracket
\* the application and the records that replace the base's
compute_patch(t, b0, b1) ==
    [agg_tiles_hash_before_apply |-> aggregate_hash(Filled(t, b0), t),
     agg_tiles_hash_after_apply |->
        aggregate_hash(insert_tiles(Filled(t, b0), t, "Override", b1).c, t),
     tiles |-> b1]

apply_patch_unverified(d, patch) ==
    LET r == insert_tiles(d.c, d.mbt_type, "Override", patch.tiles)
    IN [out |-> "Ok", dst |-> [d EXCEPT !.c = r.c]]

\* apply_patch(base_container, patch): the result and the base container
apply_patch(d, patch) ==
    IF aggregate_hash(d.c, d.mbt_type) # patch.agg_tiles_hash_before_apply
    THEN [out |-> "BaseMismatch", dst |-> d]
    ELSE LET r == insert_tiles(d.c, d.mbt_type, "Override", patch.tiles)
         IN IF r.result # "Ok" THEN [out |-> "Io", dst |-> d]
            ELSE IF aggregate_hash(r.c, d.mbt_type) # patch.agg_tiles_hash_after_apply
            THEN [out |-> "ResultMismatch", dst |-> d]
            ELSE [out |-> "Ok", dst |-> [d EXCEPT !.c = r.c]]

\* patches computed against a content a second file can have, sound or with a wrong
\* hash of the result
Patches(t) ==
    LET sound == {compute_patch(t, b0, b1) : b0 \in DestBatches, b1 \in Batches}
    IN sound \cup {[p EXCEPT !.agg_tiles_hash_after_apply = p.agg_tiles_hash_before_apply] :
                        p \in sound}

\* two files: a source holding any tiles, a second file new or holding one tile
InitCopy ==
    /\ mbt_type \in MbtTypes
    /\ db \in {Filled(mbt_type, b) : b \in Batches}
    /\ metadata \in SourceMetadata
    /\ dst \in {[mbt_type |-> t, c |-> Filled(t, b), metadata |-> m] :
                    t \in MbtTypes, b \in DestBatches, m \in DestMetadata}
    /\ call = NoCall
    /\ stream = NoStream
    /\ tx = EmptyContainer
    /\ pc = "idle"
    /\ on_duplicate = "Abort"
    /\ batch = <<>>
    /\ idx = 1
    /\ result = NoResult
    /\ pre = EmptyContainer
    /\ obs = None
    /\ rep = [t \in MbtTypes |-> EmptyContainer]
    /\ sync = TRUE
    /\ got = None
    /\ stmts = <<>>

\* copy(source, destination, copy_type, duplicate_mode)
Copy ==
    /\ call = NoCall
    /\ \E copy_type \in CopyTypes, mode \in CopyDuplicateModes,
          order \in Orders(Tiles(db, mbt_type)) :
        LET r == copy(db, mbt_type, metadata, dst, copy_type, mode, order)
        IN /\ dst' = r.dst
           /\ call' = [op |-> "copy", args |-> <<copy_type, mode>>, out |-> r.out,
                       pre |-> dst]
    /\ UNCHANGED <<mbt_type, db, stream, metadata>>
    /\ UNCHANGED core

\* apply_patch(base_container, patch) on the second file
ApplyPatch ==
    /\ call = NoCall
    /\ \E patch \in Patches(dst.mbt_type) :
        LET r == apply_patch(dst, patch)
        IN /\ dst' = r.dst
           /\ call' = [op |-> "apply_patch", args |-> <<patch>>, out |-> r.out,
                       pre |-> dst]
    /\ UNCHANGED <<mbt_type, db, stream, metadata>>
    /\ UNCHANGED core

NextCopy ==
    \/ Copy
    \/ ApplyPatch

SpecCopy == InitCopy /\ [][NextCopy]_vars

(***************************************************************************)
(* Properties of copy and patch                                            *)
(***************************************************************************)
Copied == call.op = "copy"

\* C16: CopyType selects the two transfers independently: copy_tiles() holds exactly
\* for All and Tiles, copy_metadata() exactly for All and Metadata, so a copy of
\* Tiles leaves the metadata of the destination as it was and a copy of Metadata
\* leaves its tile tables as they were.
C16_CopyTypeSelectsIndependently ==
    /\ \A copy_type \in CopyTypes :
            /\ copy_tiles(copy_type) <=> copy_type \in {"All", "Tiles"}
            /\ copy_metadata(copy_type) <=> copy_type \in {"All", "Metadata"}
    /\ (Copied /\ call.args[1] = "Tiles") => dst.metadata = call.pre.metadata
    /\ (Copied /\ call.args[1] = "Metadata") => dst.c = call.pre.c

\* a copy of Tiles wrote tiles next to metadata that differs from the source's, and
\* a copy of Metadata would have had tiles to write
C16_Witness ==
    /\ Copied
    /\ call.out = "Ok"
    /\ \/ /\ call.args[1] = "Tiles"
          /\ dst.c # call.pre.c
          /\ metadata # dst.metadata
       \/ /\ call.args[1] = "Metadata"
          /\ dst.metadata # call.pre.metadata
          /\ Tiles(db, mbt_type) # {}

\* C17: a copy of the tiles of a Flat source into a new Normalized file, made of
\* stream_tiles and insert_tiles, leaves a file in which get_tile returns, at every
\* coordinate of the source, the bytes the source holds there.
C17_CrossVariantCopyPreserves ==
    (/\ Copied
     /\ copy_tiles(call.args[1])
     /\ call.out = "Ok"
     /\ mbt_type = "Flat"
     /\ IsNormalized(dst.mbt_type)
     /\ call.pre.c = EmptyContainer)
        => \A coord \in Coords :
                get_tile(db, mbt_type, coord[1], coord[2], coord[3]) # NULL
                    => get_tile(dst.c, dst.mbt_type, coord[1], coord[2], coord[3])
                            = get_tile(db, mbt_type, coord[1], coord[2], coord[3])

\* two tiles of a Flat source, with different bytes, were copied into a new
\* Normalized file
C17_Witness ==
    /\ Copied
    /\ copy_tiles(call.args[1])
    /\ call.out = "Ok"
    /\ mbt_type = "Flat"
    /\ IsNormalized(dst.mbt_type)
    /\ call.pre.c = EmptyContainer
    /\ get_tile(db, mbt_type, 1, 0, 0) = "A"
    /\ get_tile(db, mbt_type, 1, 0, 1) = "B"

Patched == call.op = "apply_patch"

\* C18: apply_patch on a base whose aggregate hash differs from the patch's
\* agg_tiles_hash_before_apply fails with BaseMismatch and leaves the base as it
\* was: the same number of tiles, and every tile's bytes unchanged.
C18_BaseMismatchLeavesBase ==
    (/\ Patched
     /\ aggregate_hash(call.pre.c, call.pre.mbt_type)
            # call.args[1].agg_tiles_hash_before_apply)
        => /\ call.out = "BaseMismatch"
           /\ Cardinality(Tiles(dst.c, dst.mbt_type))
                = Cardinality(Tiles(call.pre.c, call.pre.mbt_type))
           /\ Tiles(dst.c, dst.mbt_type) = Tiles(call.pre.c, call.pre.mbt_type)
           /\ dst = call.pre

\* a patch that carries tiles was refused on a base that holds a tile
C18_Witness ==
    /\ Patched
    /\ call.out = "BaseMismatch"
    /\ Len(call.args[1].tiles) > 0
    /\ Tiles(call.pre.c, call.pre.mbt_type) # {}

(***************************************************************************)
(* The statements of one insert_tiles call                                 *)
(***************************************************************************)
\* positions of the executed statements that wrote a given table
StmtsInto(table) == {i \in 1..Len(stmts) : stmts[i] = table}

\* the table the per-record statement of the variant writes
IndexTable == get_insert_sql(mbt_type, on_duplicate).sql1.into

\* C22: write ordering under Normalized.  Within one insert_tiles transaction the
\* images statement has been executed for every record of the batch before the first
\* map statement is executed, so at every step of the call every index row seen in the
\* transaction references a content id that has a content row; under Flat and
\* FlatWithHash the call executes one statement per record and no content statement.
C22_ContentBeforeIndex ==
    /\ IsNormalized(mbt_type) =>
        /\ \A i \in StmtsInto("images") : \A j \in StmtsInto("map") : i < j
        /\ StmtsInto("map") # {} => Cardinality(StmtsInto("images")) = Len(batch)
        /\ \A m \in tx.map : Referenced(tx, m) # {}
    /\ ~IsNormalized(mbt_type) =>
        /\ pc # "sql2"
        /\ StmtsInto(IndexTable) = 1..Len(stmts)
        /\ Len(stmts) <= Len(batch)
    /\ ReturnedOk => Cardinality(StmtsInto(IndexTable)) = Len(batch)

\* a Normalized call wrote an index row after the content rows of both its records
C22_Witness ==
    /\ IsNormalized(mbt_type)
    /\ pc = "sql1"
    /\ Len(batch) = 2
    /\ stmts = <<"images", "images", "map">>
    /\ tx.map # pre.map

(***************************************************************************)
(* Stored hashes                                                           *)
(***************************************************************************)
\* every stored hash of a content is the MD5 of the bytes stored with it
HashesMatchBytes(c) ==
    /\ \A r \in c.tiles_with_hash : r.tile_hash = md5_hex(r.tile_data)
    /\ \A im \in c.images : im.tile_id = md5_hex(im.tile_data)

\* C23: stored hashes stay consistent with stored bytes.  After any sequence of
\* insert_tiles calls in any duplicate modes, and at every step inside a call, every
\* FlatWithHash row has tile_hash = md5_hex(tile_data), every Normalized content row has
\* tile_id = md5_hex(tile_data), and whenever get_tile_and_hash returns a hash for a
\* coordinate it is the MD5 of the bytes returned with it, which are the bytes get_tile
\* returns; the variants that store a hash return one for every tile.
C23_HashMatchesBytes ==
    /\ HashesMatchBytes(db)
    /\ HashesMatchBytes(tx)
    /\ \A coord \in Coords :
            LET r == ReadTileAndHash(db, coord)
            IN r # None =>
                /\ r[1] = ReadTile(db, coord)
                /\ r[2] # NULL => r[2] = md5_hex(r[1])
                /\ r[2] = NULL => mbt_type = "Flat"

\* an Override call replaced the bytes of a tile that is stored with its hash
C23_Witness ==
    /\ ReturnedOk
    /\ on_duplicate = "Override"
    /\ mbt_type # "Flat"
    /\ \E k \in 1..Len(batch) :
            /\ Collides(k)
            /\ ReadTileAndHash(db, CoordOf(batch[k])) = <<batch[k][4], md5_hex(batch[k][4])>>
            /\ ReadTileAndHash(pre, CoordOf(batch[k])) # ReadTileAndHash(db, CoordOf(batch[k]))

(***************************************************************************)
(* What insert_tiles leaves alone                                          *)
(***************************************************************************)
\* the coordinates no record of the batch is at
OtherCoords == Coords \ BatchCoords

\* C24: frame condition of insert_tiles.  For every variant and duplicate mode, after a
\* call returned Ok every coordinate that does not occur in the batch reads, through
\* get_tile and get_tile_and_hash, the bytes and hash it read before the call, also when
\* a record of the batch has the bytes of a tile stored at such a coordinate.
C24_FrameOfInsertTiles ==
    ReturnedOk =>
        \A coord \in OtherCoords :
            /\ ReadTile(db, coord) = ReadTile(pre, coord)
            /\ ReadTileAndHash(db, coord) = ReadTileAndHash(pre, coord)

\* a Normalized call wrote, at one coordinate, the bytes a tile at another coordinate
\* already had, so that both index rows share one content row
C24_Witness ==
    /\ ReturnedOk
    /\ IsNormalized(mbt_type)
    /\ db # pre
    /\ \E coord \in OtherCoords : \E k \in 1..Len(batch) :
            /\ ReadTile(pre, coord) = batch[k][4]
            /\ ReadTile(db, CoordOf(batch[k])) = batch[k][4]
            /\ ReadTile(pre, CoordOf(batch[k])) # batch[k][4]

(***************************************************************************)
(* The content table of Normalized                                         *)
(***************************************************************************)
\* the content rows of c that no index row references
Unreferenced(c) == {im \in c.images : \A m \in c.map : m.tile_id # im.tile_id}

\* record k was dropped by mode Ignore: its coordinate held other bytes before the call
DroppedByIgnore(k) == on_duplicate = "Ignore" /\ Collides(k)

\* record k replaced, under mode Override, an index row that referenced other bytes
ReplacedByOverride(k) == on_duplicate = "Override" /\ Collides(k)

\* C25: under Normalized the content-table write of insert_tiles does not depend on the
\* outcome of the index write.  No content row is ever deleted, inside the transaction
\* or by its commit; after a call returned Ok the content table holds a row for the
\* bytes of every record, also of a record that mode Ignore dropped, and still holds the
\* row that an index row replaced under mode Override referenced before.
C25_ContentTableOnlyGrows ==
    IsNormalized(mbt_type) =>
        /\ pre.images \subseteq tx.images
        /\ pre.images \subseteq db.images
        /\ ReturnedOk =>
                \A k \in 1..Len(batch) :
                    /\ \E im \in db.images : im.tile_data = batch[k][4]
                    /\ (DroppedByIgnore(k) \/ ReplacedByOverride(k)) =>
                            \E im \in db.images :
                                im.tile_data = ReadTile(pre, CoordOf(batch[k]))

\* mode Ignore dropped a record and its bytes are a new content row that nothing references
C25_Witness ==
    /\ IsNormalized(mbt_type)
    /\ ReturnedOk
    /\ \E k \in 1..Len(batch) :
            /\ DroppedByIgnore(k)
            /\ ReadTile(db, CoordOf(batch[k])) = ReadTile(pre, CoordOf(batch[k]))
            /\ \E im \in Unreferenced(db) \ pre.images : im.tile_data = batch[k][4]

=============================================================================
